---- MODULE Spec2Model ----
(***************************************************************************)
(* Randomized SVD (src/rsvd.py): normalize_columns, find_Q and rsvd.       *)
(*                                                                         *)
(* Array entries are IEEE-754 values modelled as exact extended rationals: *)
(* <<n, d>> with d > 0 is the finite value n/d in lowest terms, <<1, 0>>   *)
(* is +inf, <<-1, 0>> is -inf and <<0, 0>> is NaN.  Rounding is not        *)
(* modelled and zero is unsigned (dividing by a zero of the other sign     *)
(* flips the infinity, never the finiteness).                              *)
(*                                                                         *)
(* numpy's qr and svd are library calls of the program: they are modelled  *)
(* by what numpy documents of them (shapes, factors of a finite matrix,    *)
(* propagation of non-finite entries) as terms over their arguments.       *)
(***************************************************************************)
EXTENDS Integers, Sequences, FiniteSets, TLC

\* ------------------------------------------------------------------ bounds

\* Largest number of rows of an input matrix.
MaxRows == 2
\* Largest number of columns of an input matrix.
MaxCols == 2
\* Largest target rank k and largest explicit oversampling l.
MaxK == 2

\* Entries of the matrices handed to normalize_columns directly.
XEntries == {-2, -1, 0, 2}
\* Entries of the matrices handed to rsvd.
AEntries == {0, 1}
\* Seeds the caller gives the random source before the first call.
Seeds == {1, 2}

\* ------------------------------------------------------- extended rationals

Abs(i) == IF i < 0 THEN -i ELSE i

Sign(i) == IF i < 0 THEN -1 ELSE IF i = 0 THEN 0 ELSE 1

Min(a, b) == IF a < b THEN a ELSE b

RECURSIVE Gcd(_, _)
Gcd(a, b) == IF b = 0 THEN a ELSE Gcd(b, a % b)

NaN == <<0, 0>>

\* n/d in lowest terms with a positive denominator (d # 0).
Rat(n, d) ==
    LET g == Gcd(Abs(n), Abs(d))
        s == Sign(d)
    IN  <<(s * n) \div g, (s * d) \div g>>

FromInt(i) == <<i, 1>>

IsNaN(x) == x = NaN

IsFinite(x) == x[2] # 0

IsZero(x) == x[2] # 0 /\ x[1] = 0

\* x < y under IEEE-754: false when either is NaN.
Less(x, y) ==
    IF IsNaN(x) \/ IsNaN(y) THEN FALSE
    ELSE IF ~IsFinite(x) THEN x[1] = -1 /\ y # x
    ELSE IF ~IsFinite(y) THEN y[1] = 1
    ELSE x[1] * y[2] < y[1] * x[2]

\* x / y under IEEE-754 (default error state: a warning, never an exception).
Div(x, y) ==
    IF IsNaN(x) \/ IsNaN(y) THEN NaN
    ELSE IF ~IsFinite(x)
         THEN IF ~IsFinite(y) THEN NaN
              ELSE <<x[1] * (IF y[1] < 0 THEN -1 ELSE 1), 0>>
    ELSE IF ~IsFinite(y) THEN <<0, 1>>
    ELSE IF y[1] = 0 THEN <<Sign(x[1]), 0>>
    ELSE Rat(x[1] * y[2], x[2] * y[1])

\* Sum and product of finite values.
Add(x, y) == Rat(x[1] * y[2] + y[1] * x[2], x[2] * y[2])

Mul(x, y) == Rat(x[1] * y[1], x[2] * y[2])

\* ------------------------------------------------------------ dense arrays

\* A matrix is a sequence of rows, each a sequence of entries; at least one
\* row and one column.
Rows(X) == Len(X)

Cols(X) == Len(X[1])

Column(X, j) == [i \in 1..Rows(X) |-> X[i][j]]

AllFinite(X) == \A i \in 1..Rows(X) : \A j \in 1..Cols(X) : IsFinite(X[i][j])

IntMatrices(m, n, E) == [1..m -> [1..n -> {FromInt(e) : e \in E}]]

\* np.max of a vector: NaN when any entry is NaN, else the greatest entry.
RECURSIVE VecMax(_, _)
VecMax(v, upto) ==
    IF upto = 1 THEN v[1]
    ELSE LET rest == VecMax(v, upto - 1)
         IN  IF IsNaN(rest) \/ IsNaN(v[upto]) THEN NaN
             ELSE IF Less(rest, v[upto]) THEN v[upto] ELSE rest

\* X.max(axis=0)[j]: the maximum of column j.
ColMax(X, j) == VecMax(Column(X, j), Rows(X))

\* A faulty variant: divides by the maximum of the whole array (X / X.max()).
normalize_by_global_max(X) ==
    LET whole == VecMax([j \in 1..Cols(X) |-> ColMax(X, j)], Cols(X))
    IN  [i \in 1..Rows(X) |-> [j \in 1..Cols(X) |-> Div(X[i][j], whole)]]

\* A faulty variant: refuses a column whose maximum is zero (the empty array stands
\* for the raised error).
normalize_columns_checked(X) ==
    IF X = <<>> \/ \E j \in 1..Cols(X) : IsZero(ColMax(X, j)) THEN <<>>
    ELSE [i \in 1..Rows(X) |-> [j \in 1..Cols(X) |-> Div(X[i][j], ColMax(X, j))]]

\* normalize_columns: X / X.max(axis=0), a new array, broadcast over the rows.
normalize_columns(X) ==
    [i \in 1..Rows(X) |-> [j \in 1..Cols(X) |-> Div(X[i][j], ColMax(X, j))]]

\* The docstring's example and the result it prints.
DocExample ==
    << <<FromInt(1000), FromInt(10), Rat(1, 2)>>,
       <<FromInt(765),  FromInt(5),  Rat(35, 100)>>,
       <<FromInt(800),  FromInt(7),  Rat(9, 100)>> >>

DocResult ==
    << <<FromInt(1),     FromInt(1), FromInt(1)>>,
       <<Rat(765, 1000), Rat(5, 10), Rat(7, 10)>>,
       <<Rat(8, 10),     Rat(7, 10), Rat(18, 100)>> >>

\* ------------------------------------------------------------------ state

VARIABLES
    \* normalize_columns called on its own
    X,          \* the caller's array
    once,       \* normalize_columns(X)
    twice,      \* normalize_columns(normalize_columns(X))
    npc,        \* "idle" | "input" | "once" | "twice"
    \* rsvd
    A,          \* the input matrix
    k,          \* the target rank
    l_arg,      \* the l argument: <<>> for None, else <<l>>
    return_Q,   \* the return_Q argument of the current call
    svd_build,  \* what the build's svd does with a non-finite matrix:
                \* "raises" | "returns", "unseen" until it has happened
    rng,        \* np.random's global generator: [seed, pos]
    rng0,       \* the generator at the entry of the current call
    l, Omega, Y, Q, B, S, Sigma, Vt, U,   \* the locals of find_Q and rsvd
    pc,         \* "idle" | "call" | "stageB" | "truncate" | "returned" | "raised"
    hist        \* the finished calls, oldest first

nvars == <<X, once, twice, npc>>

locals == <<l, Omega, Y, Q, B, S, Sigma, Vt, U>>

pvars == <<A, k, l_arg, return_Q, svd_build, rng, rng0, locals, pc, hist>>

vars == <<nvars, pvars>>

\* ------------------------------------------------ the random source (numpy)

GaussTable == <<1, -1, 2, -2, -1, 1, -2>>

\* The t-th sample of the stream of seed s.
Gauss(s, t) == FromInt(GaussTable[((s * t + 2 * s) % Len(GaussTable)) + 1])

\* A faulty variant: the draw also depends on how many calls were made before.
Randn_unseeded(r, n, ll) ==
    [i \in 1..n |-> [j \in 1..ll |->
        Gauss(r.seed + Len(hist), r.pos + (i - 1) * ll + j)]]

\* np.random.randn(n, l): the next n*l samples of the generator, row-major.
Randn(r, n, ll) ==
    [i \in 1..n |-> [j \in 1..ll |-> Gauss(r.seed, r.pos + (i - 1) * ll + j)]]

\* The generator after n*l samples were drawn.
Advance(r, count) == [seed |-> r.seed, pos |-> r.pos + count]

\* ------------------------------------------------------- matmul on entries

RECURSIVE Dot(_, _, _)
Dot(u, v, upto) ==
    IF upto = 0 THEN FromInt(0)
    ELSE Add(Dot(u, v, upto - 1), Mul(u[upto], v[upto]))

\* mm = np.matmul on two finite arrays with Cols(M) = Rows(N).
mm(M, N) ==
    [i \in 1..Rows(M) |-> [j \in 1..Cols(N) |-> Dot(M[i], Column(N, j), Cols(M))]]

\* ------------------------------------------- factors (qr, svd and products)

\* A computed array known by its shape, whether all its entries are finite,
\* and the expression that produced it.
Factor(r, c, f, t) == [rows |-> r, cols |-> c, finite |-> f, term |-> t]

NoFactor == Factor(0, 0, TRUE, <<>>)

NoVector == [len |-> 0, finite |-> TRUE, descending |-> TRUE, term |-> <<>>]

\* An array of entries as a factor.
AsFactor(M) == Factor(Rows(M), Cols(M), AllFinite(M), M)

\* np.linalg.qr(M, mode='reduced')[0]: (rows, min(rows, cols)), orthonormal
\* columns for a finite M, non-finite entries otherwise.
qr_Q(M) ==
    [rows |-> Rows(M), cols |-> Min(Rows(M), Cols(M)), finite |-> AllFinite(M),
     orthonormal |-> AllFinite(M), term |-> <<"qr.Q", M>>]

\* F.T
Transpose(F) == Factor(F.cols, F.rows, F.finite, <<"T", F.term>>)

\* mm on factors with F.cols = G.rows: a non-finite entry of either operand
\* makes entries of the product non-finite.
mmF(F, G) == Factor(F.rows, G.cols, F.finite /\ G.finite, <<"mm", F.term, G.term>>)

\* A faulty variant: np.linalg.svd(F, full_matrices=False).
svd_economy(F) ==
    LET r == Min(F.rows, F.cols)
    IN  [S |-> Factor(F.rows, r, F.finite, <<"svd.U", F.term>>),
         Sigma |-> [len |-> r, finite |-> F.finite, descending |-> F.finite,
                    term |-> <<"svd.s", F.term>>],
         Vt |-> Factor(r, F.cols, F.finite, <<"svd.Vh", F.term>>)]

\* np.linalg.svd(F), full_matrices=True by default: (M, M), min(M, N) values
\* sorted in descending order, (N, N).
svd(F) ==
    [S |-> Factor(F.rows, F.rows, F.finite, <<"svd.U", F.term>>),
     Sigma |-> [len |-> Min(F.rows, F.cols), finite |-> F.finite,
                descending |-> F.finite, term |-> <<"svd.s", F.term>>],
     Vt |-> Factor(F.cols, F.cols, F.finite, <<"svd.Vh", F.term>>)]

\* F[:, :kk], v[:kk] and F[:kk, :] for kk >= 1: the prefix that exists.
SliceCols(F, kk) == Factor(F.rows, Min(kk, F.cols), F.finite, <<"[:, :k]", F.term, kk>>)

SliceVec(v, kk) ==
    [len |-> Min(kk, v.len), finite |-> v.finite, descending |-> v.descending,
     term |-> <<"[:k]", v.term, kk>>]

SliceRows(F, kk) == Factor(Min(kk, F.rows), F.cols, F.finite, <<"[:k, :]", F.term, kk>>)

\* -------------------------------------------- normalize_columns on its own

NormInputs ==
    {DocExample} \cup
    UNION {IntMatrices(m, n, XEntries) : m \in 1..MaxRows, n \in 1..MaxCols}

PipelineIdle ==
    /\ A = <<>> /\ k = 0 /\ l_arg = <<>> /\ return_Q = FALSE
    /\ svd_build = "unseen"
    /\ rng = [seed |-> 0, pos |-> 0] /\ rng0 = [seed |-> 0, pos |-> 0]
    /\ l = 0 /\ Omega = <<>> /\ Y = <<>>
    /\ Q = NoFactor /\ B = NoFactor /\ S = NoFactor /\ Sigma = NoVector
    /\ Vt = NoFactor /\ U = NoFactor
    /\ pc = "idle" /\ hist = <<>>

InitNorm ==
    /\ X \in NormInputs
    /\ once = <<>> /\ twice = <<>>
    /\ npc = "input"
    /\ PipelineIdle

\* Y = normalize_columns(X): the result is a new array, X is left as it was.
NormalizeOnce ==
    /\ npc = "input"
    /\ once' = normalize_columns(X)
    /\ npc' = "once"
    /\ UNCHANGED <<X, twice, pvars>>

\* normalize_columns applied to its own result.
NormalizeTwice ==
    /\ npc = "once"
    /\ twice' = normalize_columns(once)
    /\ npc' = "twice"
    /\ UNCHANGED <<X, once, pvars>>

NextNorm == NormalizeOnce \/ NormalizeTwice

SpecNorm == InitNorm /\ [][NextNorm]_vars

\* --------------------------------------------------------------------- rsvd

NormIdle == X = <<>> /\ once = <<>> /\ twice = <<>> /\ npc = "idle"

NoLocals ==
    /\ l = 0 /\ Omega = <<>> /\ Y = <<>>
    /\ Q = NoFactor /\ B = NoFactor /\ S = NoFactor /\ Sigma = NoVector
    /\ Vt = NoFactor /\ U = NoFactor

Init ==
    /\ NormIdle
    /\ A \in UNION {IntMatrices(m, n, AEntries) : m \in 1..MaxRows, n \in 1..MaxCols}
    /\ k \in 1..MaxK
    /\ l_arg \in {<<>>} \cup {<<ll>> : ll \in 1..MaxK}
    /\ return_Q \in BOOLEAN
    /\ svd_build = "unseen"
    /\ \E seed \in Seeds :
          /\ rng = [seed |-> seed, pos |-> 0]
          /\ rng0 = [seed |-> seed, pos |-> 0]
    /\ NoLocals
    /\ pc = "call"
    /\ hist = <<>>

\* What a finished call leaves behind for its caller.
Finished(outcome) ==
    [return_Q |-> return_Q, rng0 |-> rng0, rng1 |-> rng, Q |-> Q, outcome |-> outcome]

\* find_Q(A, l): the draw, the sketch, its normalisation, the reduced QR.
find_Q(M, ll, r) ==
    LET Om == Randn(r, Cols(M), ll)
        Yn == normalize_columns(mm(M, Om))
    IN  [Omega |-> Om, Y |-> Yn, Q |-> qr_Q(Yn)]

\* rsvd, lines 47-50: the default l = 2k, then Stage A.
StageA ==
    /\ pc = "call"
    /\ LET ll == IF l_arg = <<>> THEN 2 * k ELSE l_arg[1]
           fq == find_Q(A, ll, rng)
       IN  /\ l' = ll
           /\ Omega' = fq.Omega
           /\ Y' = fq.Y
           /\ Q' = fq.Q
           /\ rng' = Advance(rng, Cols(A) * ll)
    /\ pc' = "stageB"
    /\ UNCHANGED <<nvars, A, k, l_arg, return_Q, svd_build, rng0, B, S, Sigma, Vt, U, hist>>

\* rsvd, lines 53-55: B = Qt A, its SVD, U = Q S.  On a non-finite B the SVD
\* either raises LinAlgError, which rsvd lets through, or returns non-finite
\* factors: which of the two depends on the LAPACK build, and is the same
\* for every call.
StageB ==
    /\ pc = "stageB"
    /\ LET Bn == mmF(Transpose(Q), AsFactor(A))
           f  == svd(Bn)
       IN  /\ B' = Bn
           /\ svd_build' \in IF Bn.finite THEN {svd_build}
                              ELSE IF svd_build = "unseen" THEN {"raises", "returns"}
                              ELSE {svd_build}
           /\ IF ~Bn.finite /\ svd_build' = "raises"
              THEN /\ pc' = "raised"
                   /\ hist' = Append(hist, Finished([kind |-> "raise", value |-> <<>>]))
                   /\ UNCHANGED <<S, Sigma, Vt, U>>
              ELSE /\ S' = f.S
                   /\ Sigma' = f.Sigma
                   /\ Vt' = f.Vt
                   /\ U' = mmF(Q, f.S)
                   /\ pc' = "truncate"
                   /\ UNCHANGED hist
    /\ UNCHANGED <<nvars, A, k, l_arg, return_Q, rng, rng0, l, Omega, Y, Q>>

\* A faulty variant: the basis is truncated like the factors.
ReturnValue_truncated_Q(withQ) ==
    IF withQ
    THEN <<SliceCols(U, k), SliceVec(Sigma, k), SliceRows(Vt, k), SliceCols(Q, k)>>
    ELSE <<SliceCols(U, k), SliceVec(Sigma, k), SliceRows(Vt, k)>>

\* rsvd, lines 58-60: U[:, :k], Sigma[:k], Vt[:k, :] and, if asked, Q.
ReturnValue(withQ) ==
    IF withQ
    THEN <<SliceCols(U, k), SliceVec(Sigma, k), SliceRows(Vt, k), Q>>
    ELSE <<SliceCols(U, k), SliceVec(Sigma, k), SliceRows(Vt, k)>>

Return ==
    /\ pc = "truncate"
    /\ hist' = Append(hist, Finished([kind |-> "return", value |-> ReturnValue(return_Q)]))
    /\ pc' = "returned"
    /\ UNCHANGED <<nvars, A, k, l_arg, return_Q, svd_build, rng, rng0, locals>>

\* The caller calls rsvd a second time on the same A, k and l, after
\* np.random.seed(seed) or with the generator as the first call left it.
CallAgain ==
    /\ pc \in {"returned", "raised"}
    /\ Len(hist) = 1
    /\ \E reseed \in BOOLEAN :
          /\ rng' = IF reseed THEN [seed |-> rng.seed, pos |-> 0] ELSE rng
          /\ rng0' = rng'
    /\ return_Q' \in BOOLEAN
    /\ l' = 0 /\ Omega' = <<>> /\ Y' = <<>>
    /\ Q' = NoFactor /\ B' = NoFactor /\ S' = NoFactor /\ Sigma' = NoVector
    /\ Vt' = NoFactor /\ U' = NoFactor
    /\ pc' = "call"
    /\ UNCHANGED <<nvars, A, k, l_arg, svd_build, hist>>

Next == StageA \/ StageB \/ Return \/ CallAgain

Spec == Init /\ [][Next]_vars

\* ----------------------------------------------------------------- claims

\* The value n1/d1 equals (n2/d2) / (n3/d3), for finite values and n3 # 0.
IsQuotient(q, x, d) ==
    IsFinite(q) /\ q[1] * x[2] * d[1] = x[1] * d[2] * q[2]

\* v is the greatest entry of column j of the finite array M.
IsMaxOfColumn(M, j, v) ==
    /\ \E i \in 1..Rows(M) : M[i][j] = v
    /\ \A i \in 1..Rows(M) : M[i][j][1] * v[2] <= v[1] * M[i][j][2]

SameShape(M, N) ==
    /\ Len(M) = Len(N)
    /\ \A i \in 1..Len(M) : Len(M[i]) = Len(N[i])

\* The l that rsvd works with.
EffectiveL == IF l_arg = <<>> THEN 2 * k ELSE l_arg[1]

LastCall == hist[Len(hist)]

\* C1: rsvd(A, k) with l not supplied returns U_k of shape (m, k), Sigma_k of
\* exactly k entries in non-increasing order and Vt_k of shape (k, n), for
\* every A and every k >= 1.
C1_DefaultShapes ==
    (pc \in {"returned", "raised"} /\ l_arg = <<>>) =>
        /\ pc = "returned"
        /\ LET v == LastCall.outcome.value
           IN  /\ v[1].rows = Rows(A) /\ v[1].cols = k
               /\ v[2].len = k /\ v[2].descending
               /\ v[3].rows = k /\ v[3].cols = Cols(A)

\* C2: for every A, every l with 1 <= l <= min(m, n) and every draw, the Q
\* that find_Q returns has l columns, finite entries and QtQ = I.
C2_BasisOrthonormal ==
    (pc = "stageB" /\ l <= Min(Rows(A), Cols(A))) =>
        Q.cols = l /\ Q.finite /\ Q.orthonormal

\* C3: normalize_columns applied twice gives what it gives applied once, for
\* every matrix X.
C3_Idempotent == (npc = "twice") => twice = once

\* C4: every column of X with a nonzero maximum is divided, entry by entry,
\* by its own maximum (the docstring's example included), and X is left as
\* it was.
C4_DividedByOwnMax ==
    (npc \in {"once", "twice"}) =>
        /\ SameShape(once, X)
        /\ \A j \in 1..Cols(X) : \A v \in {X[i][j] : i \in 1..Rows(X)} :
              (IsMaxOfColumn(X, j, v) /\ ~IsZero(v)) =>
                  \A i \in 1..Rows(X) : IsQuotient(once[i][j], X[i][j], v)
        /\ (X = DocExample => once = DocResult)

C4_Witness ==
    /\ npc = "once"
    /\ X = DocExample
    /\ once[2] = <<Rat(765, 1000), Rat(1, 2), Rat(7, 10)>>

\* C5: the divisor of every column is the entry of the column with the
\* largest absolute value.
C5_DivisorIsMaxMagnitude ==
    (npc = "once") =>
        \A j \in 1..Cols(X) : \E i0 \in 1..Rows(X) :
            /\ \A i \in 1..Rows(X) :
                  Abs(X[i][j][1]) * X[i0][j][2] <= Abs(X[i0][j][1]) * X[i][j][2]
            /\ \A i \in 1..Rows(X) : once[i][j] = Div(X[i][j], X[i0][j])

\* C6: with a column of X whose maximum is zero, normalize_columns still
\* returns an array of X's shape: the entries of that column are non-finite
\* and every column with a nonzero maximum is divided by its own maximum.
C6_ZeroMaxNonFinite ==
    (npc \in {"once", "twice"}
        /\ \E j \in 1..Cols(X) : IsMaxOfColumn(X, j, FromInt(0))) =>
        /\ SameShape(once, X)
        /\ \A j \in 1..Cols(X) :
              IF IsMaxOfColumn(X, j, FromInt(0))
              THEN \A i \in 1..Rows(X) : ~IsFinite(once[i][j])
              ELSE \A v \in {X[i][j] : i \in 1..Rows(X)} :
                      IsMaxOfColumn(X, j, v) =>
                          \A i \in 1..Rows(X) : IsQuotient(once[i][j], X[i][j], v)

C6_Witness ==
    /\ npc = "once"
    /\ \E j1, j2 \in 1..Cols(X) :
          /\ IsMaxOfColumn(X, j1, FromInt(0))
          /\ IsMaxOfColumn(X, j2, FromInt(2))
          /\ \E i \in 1..Rows(X) : once[i][j1] = <<-1, 0>>
          /\ \E i \in 1..Rows(X) : once[i][j1] = NaN
          /\ \E i \in 1..Rows(X) : once[i][j2] = Rat(-1, 2)

\* C7: called with k > l, rsvd raises no error and returns U of fewer than k
\* columns and Sigma of fewer than k entries.
C7_SilentTruncation ==
    (pc \in {"returned", "raised"} /\ k > EffectiveL) =>
        /\ pc = "returned"
        /\ LastCall.outcome.value[1].cols < k
        /\ LastCall.outcome.value[2].len < k

\* C8: with return_Q the call returns four components, the first three
\* being the triple returned without return_Q (same A, k, l and draw) and the
\* fourth the Q of find_Q, not truncated; without return_Q it returns three.
C8_ReturnQFrame ==
    /\ \A c \in 1..Len(hist) :
          hist[c].outcome.kind = "return" =>
              IF hist[c].return_Q
              THEN /\ Len(hist[c].outcome.value) = 4
                   /\ hist[c].outcome.value[4] = hist[c].Q
                   /\ hist[c].outcome.value[4].cols = Min(Rows(A), EffectiveL)
                   /\ hist[c].outcome.value[4].rows = Rows(A)
              ELSE Len(hist[c].outcome.value) = 3
    /\ \A c, d \in 1..Len(hist) :
          (/\ hist[c].rng0 = hist[d].rng0
           /\ hist[c].outcome.kind = "return"
           /\ hist[d].outcome.kind = "return") =>
              SubSeq(hist[c].outcome.value, 1, 3) = SubSeq(hist[d].outcome.value, 1, 3)

C8_Witness ==
    /\ Len(hist) = 2
    /\ hist[1].rng0 = hist[2].rng0
    /\ hist[1].return_Q /\ ~hist[2].return_Q
    /\ hist[1].outcome.kind = "return" /\ hist[2].outcome.kind = "return"
    /\ k < Min(Rows(A), EffectiveL)

\* C9: two calls with the same A, k, l and return_Q that start from the same
\* generator state end the same way, and each call draws exactly the n*l
\* samples of find_Q from the generator.
C9_DeterministicGivenSeed ==
    /\ \A c \in 1..Len(hist) :
          hist[c].rng1 = Advance(hist[c].rng0, Cols(A) * EffectiveL)
    /\ \A c, d \in 1..Len(hist) :
          (hist[c].rng0 = hist[d].rng0 /\ hist[c].return_Q = hist[d].return_Q) =>
              hist[c].outcome = hist[d].outcome

C9_Witness ==
    /\ Len(hist) = 2
    /\ hist[1].rng0 = hist[2].rng0
    /\ hist[1].return_Q = hist[2].return_Q
    /\ hist[1].outcome.kind = "return"
    /\ hist[1].outcome.value[1].finite

====
